---- MODULE Spec2Model ----
(***************************************************************************)
(* Humongolus document mapping and change tracking.                        *)
(*                                                                         *)
(* The model instantiates the library on one schema:                       *)
(*                                                                         *)
(*     class Emb(EmbeddedDocument):                                        *)
(*         y = Char(required=True)                                         *)
(*     class Doc(Document):                                                *)
(*         a = Integer()                                                   *)
(*         x = Emb()                                                       *)
(*         l = List(type=Emb, length=MaxLen)                               *)
(*                                                                         *)
(* and follows one Doc instance together with the collection it is stored  *)
(* in.  Python values are records [t, n, s] (type tag, number, string) so  *)
(* that Python's ==, truthiness and the coercions of clean() can be        *)
(* computed as the interpreter computes them.                              *)
(***************************************************************************)
EXTENDS Integers, Sequences, FiniteSets, TLC

VARIABLES
    a,          \* Doc.a : the Integer field instance
    x,          \* Doc.x : the embedded Emb instance
    l,          \* Doc.l : the List instance, a sequence of Emb instances
    _id,        \* Document._id
    _inited,    \* base._inited of the Doc
    hargs,      \* Document.__hargs__ : raw pairs buffered by __setitem__
    hargskeys,  \* Document.__hargskeys__
    created,    \* Document.__created__
    modified,   \* Document.__modified__
    active,     \* Document.__active__
    clock,      \* what datetime.datetime.utcnow() last returned
    coll,       \* ids of the documents held by the collection
    lastWrite,  \* the write the last operation issued to the collection
    ret,        \* what the last operation returned or raised
    baseline,   \* history: leaf values at the last initial load or successful save
    mapCount,   \* history: number of Document-level _map(init=True) passes
    sequence,   \* the counter document of the sequence collection
    ents,       \* the entities of the class Counted, each with its call in progress
    parent,     \* the Parent instance with its relation fields
    childColl,  \* the collection of Child: the document stored under each id
    relret,     \* what the last operation on the Parent returned or raised
    owners,     \* the Owner instances
    _query,     \* Lazy._query, the dictionary of the class
    lazyret,    \* what the last operation on an Owner returned
    thing,      \* the __dict__ of the Thing instance: one slot per attribute
    thingret,   \* what the last assignment on the Thing did
    stamped,    \* the Stamped instance
    utcnow,     \* what datetime.datetime.utcnow() last returned to the Stamped
    stampret    \* what the last operation on the Stamped returned or raised

vars == <<a, x, l, _id, _inited, hargs, hargskeys, created, modified, active,
          clock, coll, lastWrite, ret, baseline, mapCount, sequence, ents,
          parent, childColl, relret,
          owners, _query, lazyret,
          thing, thingret,
          stamped, utcnow, stampret>>

\* the variables of the Parent and of the Child collection
relVars == <<parent, childColl, relret>>

\* the variables of the Owners and of the class Lazy
lazyVars == <<owners, _query, lazyret>>

\* the variables of the Thing
attrVars == <<thing, thingret>>

\* the variables of the Stamped
stampVars == <<stamped, utcnow, stampret>>

\* the variables outside the Doc and the Counted entities
ext == <<relVars, lazyVars, attrVars, stampVars>>

-----------------------------------------------------------------------------
(* Bounds of the model *)

\* Doc.l is declared with length=MaxLen
MaxLen == 2
\* number of saves that reach the store
MaxClock == 2

\* magnitude of the integers tried as bounds of an Integer field
MaxInt == 2

\* calls of save() and _save() made on one Counted entity
MaxCalls == 2

-----------------------------------------------------------------------------
(* Python values *)

PyNone == [t |-> "none", n |-> 0, s |-> ""]
PyInt(k) == [t |-> "int", n |-> k, s |-> ""]
PyBool(b) == [t |-> "bool", n |-> IF b THEN 1 ELSE 0, s |-> ""]
PyStr(str) == [t |-> "str", n |-> 0, s |-> str]
PyTime(k) == [t |-> "datetime", n |-> k, s |-> ""]
ObjectId(k) == [t |-> "ObjectId", n |-> k, s |-> ""]

\* Python ==  (bool is a subclass of int: True == 1, False == 0)
PyEq(u, v) ==
    IF u.t \in {"int", "bool"} /\ v.t \in {"int", "bool"} THEN u.n = v.n ELSE u = v

\* Python truth value
Truthy(v) ==
    CASE v.t = "none" -> FALSE
      [] v.t \in {"int", "bool"} -> v.n # 0
      [] v.t = "str" -> v.s # ""
      [] OTHER -> TRUE

EMPTY == {PyStr(""), PyStr(" "), PyNone, PyStr("None")}

\* val in EMPTY
InEMPTY(v) == \E e \in EMPTY : PyEq(v, e)

\* int(str): the literals the model's strings can spell
ParseInt(str) ==
    CASE str = "0" -> [ok |-> TRUE, n |-> 0]
      [] str = "1" -> [ok |-> TRUE, n |-> 1]
      [] str = "2" -> [ok |-> TRUE, n |-> 2]
      [] OTHER -> [ok |-> FALSE, n |-> 0]

\* len(unicode)
StrLen(str) ==
    CASE str = "" -> 0
      [] str \in {" ", "0", "1", "2", "x", "z"} -> 1
      [] str \in {"None", "True"} -> 4
      [] str = "False" -> 5
      [] OTHER -> 2

\* unicode(val)
Unicode(v) ==
    CASE v.t = "none" -> "None"
      [] v.t = "int" -> ToString(v.n)
      [] v.t = "bool" -> IF v.n = 1 THEN "True" ELSE "False"
      [] v.t = "str" -> v.s
      [] OTHER -> v.t

-----------------------------------------------------------------------------
(* Field *)

NoError == "None"
Cleaned(v) == [ok |-> TRUE, val |-> v, err |-> NoError]
Raised(e) == [ok |-> FALSE, val |-> PyNone, err |-> e]

\* Field.__init__ : _value = _dirty = None (no default), _error = None
Field(kind, required) ==
    [kind |-> kind, _required |-> required, _max |-> PyNone, _min |-> PyNone,
     _value |-> PyNone, _dirty |-> PyNone, _error |-> NoError]

Char_clean(f, val) ==
    LET u == Unicode(val) IN
    IF f._max # PyNone /\ StrLen(u) > f._max.n THEN Raised("MaxException")
    ELSE IF f._min # PyNone /\ StrLen(u) < f._min.n THEN Raised("MinException")
    ELSE Cleaned(PyStr(u))

Integer_clean(f, val) ==
    IF ~Truthy(val) THEN Cleaned(val)
    ELSE LET p == CASE val.t \in {"int", "bool"} -> [ok |-> TRUE, n |-> val.n]
                    [] val.t = "str" -> ParseInt(val.s)
                    [] OTHER -> [ok |-> FALSE, n |-> 0]
         IN  IF ~p.ok THEN Raised("not a valid integer")
             ELSE IF f._max # PyNone /\ p.n > f._max.n THEN Raised("MaxException")
             ELSE IF f._min # PyNone /\ p.n < f._min.n THEN Raised("MinException")
             ELSE Cleaned(PyInt(p.n))

Boolean_clean(f, val) ==
    CASE val.t = "none" -> Cleaned(PyNone)
      [] val.t = "bool" -> Cleaned(val)
      [] val.t = "str" ->
            Cleaned(PyBool(val.s \notin {"0", "false", "False", "no", "f", "n", "N", "F"}))
      [] OTHER -> Cleaned(PyBool(Truthy(val)))

\* DynamicDocument.clean
DynamicDocument_clean(f, val) ==
    CASE val.t = "none" -> Cleaned(PyNone)
      [] val.t = "Document" ->
            IF val.n # 0 THEN Cleaned([t |-> "dict", n |-> val.n, s |-> val.s])
            ELSE Raised("Document does not have an id. Be sure to save first.")
      [] val.t = "dict" -> Cleaned(val)
      [] OTHER -> Raised("not a valid document type")

\* DocumentReference.clean, for values that are neither strings nor ObjectIds
\* (those are looked up in the collection first)
DocumentReference_clean(f, val) ==
    IF val.t = "none" THEN Cleaned(PyNone)
    ELSE IF val.t # "dict" /\ ~(val.t = "Document" /\ val.s = "Child")
         THEN Raised("is not a valid Child")
         ELSE DynamicDocument_clean(f, val)

\* DocumentId.clean: val._id if val has one, then ObjectId(val) for a true value
DocumentId_clean(f, val) ==
    LET v == IF val.t = "Document" THEN (IF val.n = 0 THEN PyNone ELSE ObjectId(val.n))
             ELSE val
    IN  IF ~Truthy(v) THEN Raised("value cannot be None")
        ELSE IF v.t = "ObjectId" THEN Cleaned(v)
        ELSE Raised("InvalidId")

\* Date.clean (TimeStamp inherits it): None and a datetime pass; a string
\* that iso8601 cannot parse and datetime.datetime(val) of any other value
\* raise
Date_clean(f, val) ==
    IF val.t \in {"none", "datetime"} THEN Cleaned(val)
    ELSE Raised("invalid datetime")

\* the clean() the field's class defines
clean(f, val) ==
    CASE f.kind = "Char" -> Char_clean(f, val)
      [] f.kind = "Integer" -> Integer_clean(f, val)
      [] f.kind = "Boolean" -> Boolean_clean(f, val)
      [] f.kind = "DynamicDocument" -> DynamicDocument_clean(f, val)
      [] f.kind = "DocumentReference" -> DocumentReference_clean(f, val)
      [] f.kind = "DocumentId" -> DocumentId_clean(f, val)
      [] f.kind = "TimeStamp" -> Date_clean(f, val)
      [] OTHER -> Cleaned(val)

\* a required-ness check that lets every value through
_isrequired_never(f, val) == FALSE

\* Field._isrequired raises
_isrequired(f, val) == InEMPTY(val) /\ f._required

\* Field._clean(val, dirty): the field afterwards, and the exception raised (if any)
_clean_dirty(f, dirty) == IF ~Truthy(dirty) THEN f._value ELSE dirty

_clean(f, val, dirty) ==
    LET f0 == [f EXCEPT !._error = NoError] IN
    IF _isrequired(f, val) THEN [f |-> f0, exc |-> "Required Field"]
    ELSE LET c == clean(f, val) IN
         IF ~c.ok THEN [f |-> f0, exc |-> c.err]
         ELSE [f |-> [f0 EXCEPT !._dirty = _clean_dirty(f, dirty), !._value = c.val],
               exc |-> NoError]

\* Python dicts keyed by strings (deltas, error reports, documents)
EmptyMap == [p \in {} |-> PyNone]

\* d.update(e)
Update(d, e) ==
    [p \in DOMAIN d \cup DOMAIN e |-> IF p \in DOMAIN e THEN e[p] ELSE d[p]]

\* ".".join([namespace, key]) if namespace else key
Join(namespace, key) == IF namespace = "" THEN key ELSE namespace \o "." \o key

\* a Field._map that lets the error of _clean go unrecorded
Field_map_forgets(f, val, init) == _clean(f, val, IF init THEN val ELSE PyNone).f

\* Field._map(val, init): exceptions of _clean are kept in _error
Field_map(f, val, init) ==
    LET r == _clean(f, val, IF init THEN val ELSE PyNone) IN
    IF r.exc = NoError THEN r.f ELSE [r.f EXCEPT !._error = r.exc]

\* Field._save(namespace)
Field_save(f, namespace) ==
    IF ~PyEq(f._value, f._dirty) THEN (namespace :> f._value) ELSE EmptyMap

\* Field._errors(namespace): the report, and the field afterwards
Field_errors(f, namespace) ==
    LET f1 == IF _isrequired(f, f._value) THEN [f EXCEPT !._error = "Required Field"]
              ELSE f
    IN  [f |-> f1,
         errs |-> IF f1._error # NoError THEN (namespace :> f1._error) ELSE EmptyMap]

\* Field._json()
Field_json(f) == f._value

\* base.__setattr__(key, val) for a key holding a Field: a FieldException of
\* _clean is stored in the field's _error
__setattr__(f, val) ==
    LET r == _clean(f, val, PyNone) IN
    IF r.exc = NoError THEN r ELSE [r EXCEPT !.f._error = r.exc]

\* what leaves base.__setattr__: both except clauses end without re-raising
__setattr__raises(f, val) == NoError

-----------------------------------------------------------------------------
(* Raw data handed over by the driver *)

RawVal(v) == [rt |-> "val", v |-> v, hasy |-> FALSE, y |-> PyNone, items |-> <<>>]
RawDict(hasy, yv) == [rt |-> "dict", v |-> PyNone, hasy |-> hasy, y |-> yv, items |-> <<>>]
RawList(items) == [rt |-> "list", v |-> PyNone, hasy |-> FALSE, y |-> PyNone, items |-> items]

\* the Python object a raw value is when a Field receives it
RawObject(raw) == IF raw.rt = "val" THEN raw.v ELSE [t |-> raw.rt, n |-> 0, s |-> ""]

-----------------------------------------------------------------------------
(* base, for the embedded class Emb *)

\* base.__init__ of Emb: fresh field instances, _inited = False
Emb == [cls |-> "Emb", _inited |-> FALSE, y |-> Field("Char", TRUE)]

\* base._map(vals, init) of an Emb: a missing key (or a raw value that is no
\* mapping) is skipped
base_map(e, vals, init) ==
    [e EXCEPT !._inited = TRUE,
              !.y = IF vals.rt = "dict" /\ vals.hasy THEN Field_map(@, vals.y, init) ELSE @]

\* base._save(namespace) of an Emb
base_save(e, namespace) == Field_save(e.y, Join(namespace, "y"))

\* base._errors(namespace) of an Emb: the report, and the Emb afterwards
base_errors(e, namespace) ==
    LET r == Field_errors(e.y, Join(namespace, "y")) IN
    [e |-> [e EXCEPT !.y = r.f], errs |-> r.errs]

\* base._json() of an Emb
base_json(e) == ("y" :> Field_json(e.y))

-----------------------------------------------------------------------------
(* List, declared List(type=Emb, length=MaxLen) *)

\* an append that checks the length but not the class of the object
List_append_untyped(lst, obj) ==
    IF Len(lst) >= MaxLen THEN [l |-> lst, exc |-> "max length exceeded"]
    ELSE [l |-> Append(lst, obj), exc |-> NoError]

\* List.append(obj): the list afterwards, and the exception raised (if any)
List_append(lst, obj) ==
    IF Truthy(PyInt(MaxLen)) /\ Len(lst) >= MaxLen THEN [l |-> lst, exc |-> "max length exceeded"]
    ELSE IF obj.cls = "Emb" THEN [l |-> Append(lst, obj), exc |-> NoError]
    ELSE [l |-> lst, exc |-> "not of type Emb"]

\* List._map(val, init): the list afterwards, and the exception raised (if
\* any).  A typed child is built and mapped per raw item (Emb() and base._map
\* never raise) and appended; when that append raises, the except clause
\* calls append(item) with the raw item, and what this second append raises
\* leaves List._map and ends the loop
RECURSIVE List_map(_, _, _)
List_map(lst, items, init) ==
    IF items = <<>> THEN [l |-> lst, exc |-> NoError]
    ELSE LET r == List_append(lst, base_map(Emb, Head(items), init)) IN
         IF r.exc = NoError THEN List_map(r.l, Tail(items), init)
         ELSE LET fb == List_append(lst, [cls |-> Head(items).rt]) IN
              IF fb.exc = NoError THEN List_map(fb.l, Tail(items), init) ELSE fb

\* ".".join([namespace, str(id)])
IndexPath(namespace, i) == namespace \o "." \o ToString(i - 1)

\* the element is a plain Python value, put into the list by a method List
\* inherits from list (extend, insert): it has none of the attributes
\* _inited, _save, _errors, _json
IsRaw(obj) == "cls" \notin DOMAIN obj

\* List._save(namespace); for a plain value obj._inited raises and the except
\* clause sets ret[ns] = obj
RECURSIVE List_save(_, _)
List_save(lst, namespace) ==
    IF lst = <<>> THEN EmptyMap
    ELSE LET n == Len(lst)
             obj == lst[n]
             ns == IndexPath(namespace, n)
         IN  Update(List_save(SubSeq(lst, 1, n - 1), namespace),
                    IF IsRaw(obj) THEN (ns :> obj)
                    ELSE IF obj._inited THEN base_save(obj, ns)
                    ELSE (ns :> base_json(obj)))

\* List._errors(namespace): the report, and the list afterwards
RECURSIVE List_errs(_, _)
List_errs(lst, namespace) ==
    IF lst = <<>> THEN EmptyMap
    ELSE LET n == Len(lst) IN
         Update(List_errs(SubSeq(lst, 1, n - 1), namespace),
                IF IsRaw(lst[n]) THEN EmptyMap
                ELSE base_errors(lst[n], IndexPath(namespace, n)).errs)

\* a List._errors that never descends into its elements
List_errors_skip(lst, namespace) == [l |-> lst, errs |-> EmptyMap]

List_errors(lst, namespace) ==
    [l |-> [i \in 1..Len(lst) |->
               IF IsRaw(lst[i]) THEN lst[i]
               ELSE base_errors(lst[i], IndexPath(namespace, i)).e],
     errs |-> List_errs(lst, namespace)]

\* List._json()
List_json(lst) ==
    [i \in 1..Len(lst) |-> IF IsRaw(lst[i]) THEN lst[i] ELSE base_json(lst[i])]

-----------------------------------------------------------------------------
(* base, for the document class Doc *)

\* Document.__keys__ : the declared (non-lazy) keys
__keys__ == {"a", "x", "l"}

\* base._map(vals, init) of the Doc: the children afterwards
Doc_map(vals, init) ==
    [a |-> IF "a" \in DOMAIN vals THEN Field_map(a, RawObject(vals["a"]), init) ELSE a,
     x |-> IF "x" \in DOMAIN vals THEN base_map(x, vals["x"], init) ELSE x,
     l |-> IF "l" \in DOMAIN vals /\ vals["l"].rt = "list"
           THEN List_map(l, vals["l"].items, init).l ELSE l]

\* base._save() of the Doc
Doc_save ==
    Update(Update(Field_save(a, "a"), base_save(x, "x")), List_save(l, "l"))

\* base._errors() of the Doc: the report, and the children afterwards
Doc_errors ==
    LET ra == Field_errors(a, "a")
        rx == base_errors(x, "x")
        rl == List_errors(l, "l")
    IN  [a |-> ra.f, x |-> rx.e, l |-> rl.l,
         errs |-> Update(Update(ra.errs, rx.errs), rl.errs)]

\* a serialization that holds the delta only
Doc_json_delta == Doc_save

\* base._json() of the Doc
Doc_json ==
    [k \in __keys__ |-> CASE k = "a" -> Field_json(a)
                          [] k = "x" -> base_json(x)
                          [] k = "l" -> List_json(l)]

\* the value held by every leaf field of the tree, by dotted path
RECURSIVE ListLeaves(_)
ListLeaves(lst) ==
    IF lst = <<>> THEN EmptyMap
    ELSE LET n == Len(lst) IN
         Update(ListLeaves(SubSeq(lst, 1, n - 1)),
                IF IsRaw(lst[n]) THEN (IndexPath("l", n) :> lst[n])
                ELSE (Join(IndexPath("l", n), "y") :> lst[n].y._value))

LeafValues(fa, ex, lst) ==
    Update(Update(("a" :> fa._value), ("x.y" :> ex.y._value)), ListLeaves(lst))

-----------------------------------------------------------------------------
(* The collection and the results of operations *)

NoWrite == [op |-> "none", id |-> PyNone, set |-> EmptyMap, doc |-> EmptyMap]
\* what an operation left behind: its outcome (status), the exception that
\* reached the caller (raised), the argument of an assignment (arg)
Returned(op, status) ==
    [op |-> op, status |-> status, errors |-> EmptyMap, delta |-> EmptyMap,
     raised |-> NoError, arg |-> PyNone]

\* the _id pymongo generates for an inserted document
NewId == ObjectId(Cardinality(coll) + 1)

-----------------------------------------------------------------------------
(* AutoIncrement, on the class

       class Counted(Document):
           n = AutoIncrement()
           a = Integer()

   Several Counted entities are used at the same time, each by its own
   caller; they share the counter document {"field": "n"} of the collection
   "sequence". *)

\* the counter document before its first upsert, val being its field "val";
\* fetches is history: the number of find_and_modify calls served
NoSequence == [val |-> 0, fetches |-> 0]

\* the entities
Entities == {"e1", "e2"}

\* Counted(): fresh fields, no _id, no call in progress.  pc is the position
\* of the call in progress, op the method called, res the document
\* find_and_modify returned; calls, fetches and first are history (calls
\* made, fetches made, value first fetched)
Counted ==
    [n |-> Field("AutoIncrement", FALSE), a |-> Field("Integer", FALSE),
     _id |-> PyNone, pc |-> "idle", op |-> "none", res |-> PyNone,
     calls |-> 0, fetches |-> 0, first |-> PyNone]

\* an AutoIncrement._save that fetches whatever the field holds
NeedsFetch_always(f) == TRUE

\* the test of AutoIncrement._save: self._value == None
NeedsFetch(f) == PyEq(f._value, PyNone)

\* a find_and_modify whose $inc is lost
find_and_modify_noinc(seq) == [seq EXCEPT !.fetches = @ + 1]

\* find_and_modify({"field": "n"}, {"$inc": {"val": 1}}, upsert=True, new=True):
\* one atomic operation of the store; the counter document afterwards
find_and_modify(seq) == [seq EXCEPT !.val = @ + 1, !.fetches = @ + 1]

-----------------------------------------------------------------------------
(* Relations, on the classes

       class Child(Document):
           a = Integer()
       class Parent(Document):
           ref  = DynamicDocument()
           dref = DocumentReference(type=Child)
           did  = DocumentId(type=Child)
           kids = Lazy(type=Child, key="parent")

   One Parent instance is followed, together with the collection of Child
   documents. *)

\* the ids a reference can name
ChildIds == {1, 2}

\* the collection of Child: the document with id 1 is stored, none with id 2
NoDocument == PyNone
InitChildColl == [k \in ChildIds |-> IF k = 1 THEN [a |-> PyInt(1)] ELSE NoDocument]

\* a Document instance as the value of an assignment: a Child holding
\* ObjectId(k) as _id (k = 0: _id is None), or an instance of another class;
\* the pair {"cls": "Child", "_id": ObjectId(k)} a reference keeps is the
\* value [t |-> "dict", n |-> k, s |-> "Child"]
ChildValue(k) == [t |-> "Document", n |-> k, s |-> "Child"]
OtherValue == [t |-> "Document", n |-> 1, s |-> "Other"]

\* hasattr(self, "__dyninst__") is False
NoAttr == [t |-> "noattr", n |-> 0, s |-> ""]

\* nothing dereferenced yet (history)
NotSeen == [id |-> 0, result |-> "nothing"]

\* a relation field after Field.__init__: no value, no __dyninst__ attribute.
\* seen is history: the stored id at the last dereference that returned, and
\* whether it returned None or an instance
Relation(kind) ==
    [kind |-> kind, _required |-> FALSE, _max |-> PyNone, _min |-> PyNone,
     _value |-> PyNone, _dirty |-> PyNone, _error |-> NoError,
     __dyninst__ |-> NoAttr, seen |-> NotSeen]

\* the eager relations of Parent
EagerKeys == {"ref", "dref", "did"}

\* Parent(): Document.__init__ without id
Parent ==
    [_id |-> PyNone,
     ref |-> Relation("DynamicDocument"),
     dref |-> Relation("DocumentReference"),
     did |-> Relation("DocumentId")]

\* the id a relation field stores: _value['_id'] of a reference pair, or the
\* ObjectId a DocumentId holds; 0 when nothing is stored
StoredId(f) == IF f._value.t \in {"dict", "ObjectId"} THEN f._value.n ELSE 0

\* the Child instance the driver builds from a stored document (find_one with
\* as_class=Child: every pair goes through __setitem__, and the document is
\* mapped with init=True)
Child(k, doc) ==
    [cls |-> "Child", _id |-> ObjectId(k),
     a |-> Field_map(Field("Integer", FALSE), doc.a, TRUE)]

\* Child.find_one({"_id": ObjectId(k)})
find_one(store, k) ==
    IF store[k] = NoDocument THEN PyNone ELSE Child(k, store[k])

\* Child(id=ObjectId(k)): Document.__init__ sets _id and calls _doc(), which
\* maps whatever find_one returns; base._map(None) leaves the fields unset
Child_init(store, k) ==
    IF store[k] = NoDocument
    THEN [cls |-> "Child", _id |-> ObjectId(k), a |-> Field("Integer", FALSE)]
    ELSE Child(k, store[k])

\* what a call to a relation field left: the field afterwards, the value
\* returned, the exception raised, the queries sent to the store, and
\* whether the object returned is the one __dyninst__ held before the call
Called(f, result, raised, queries, cached) ==
    [f |-> f, result |-> result, raised |-> raised, queries |-> queries,
     cached |-> cached]

\* DynamicDocument.__call__ (DocumentReference inherits it)
DynamicDocument_call(f, store) ==
    IF f._value.t = "dict"
    THEN IF f.__dyninst__ = PyNone
         THEN Called(f, PyNone, "AttributeError", 0, FALSE)
         ELSE IF f.__dyninst__ # NoAttr /\ f.__dyninst__._id = ObjectId(f._value.n)
         THEN Called(f, f.__dyninst__, NoError, 0, TRUE)
         ELSE LET found == find_one(store, f._value.n) IN
              Called([f EXCEPT !.__dyninst__ = found], found, NoError, 1, FALSE)
    ELSE IF PyEq(f._value, PyNone) THEN Called(f, PyNone, NoError, 0, FALSE)
    ELSE Called(f, PyNone, "Bad Value", 0, FALSE)

\* DocumentId.__call__
DocumentId_call(f, store) ==
    IF f._value # PyNone
    THEN Called(f, Child_init(store, f._value.n), NoError, 1, FALSE)
    ELSE Called(f, PyNone, "Cannot instantiate Child with id None", 0, FALSE)

\* the __call__ the field's class defines
__call__(f, store) ==
    IF f.kind = "DocumentId" THEN DocumentId_call(f, store)
    ELSE DynamicDocument_call(f, store)

\* what an operation on the Parent left behind: the key it used, the value
\* returned, the exception that reached the caller, the number of queries it
\* sent, whether it returned the object the field held, in order the writes
\* it sent and (history) what the field had last returned before
RelReturned(op, key) ==
    [op |-> op, key |-> key, result |-> PyNone, raised |-> NoError, queries |-> 0,
     cached |-> FALSE, writes |-> <<>>, before |-> NotSeen]

InitRel ==
    /\ parent = Parent
    /\ childColl = InitChildColl
    /\ relret = RelReturned("__init__", "")

-----------------------------------------------------------------------------
(* Lazy relations, on the classes

       class Owner(Document):
           a    = Integer()
           kids = Lazy(type=Kid, key="owner")
           pets = Lazy(type=Pet, key="keeper")

   Two Owner instances are followed, together with Lazy._query, the
   dictionary the class Lazy declares and no instance replaces. *)

Owners == {"o1", "o2"}
LazyKeys == {"kids", "pets"}

\* Lazy.__init__: the keyword arguments become _type and _key
Lazy(type, key) == [cls |-> "Lazy", _type |-> type, _key |-> key]

\* Lazy._save, _errors, _json: pass, the call returns None
Lazy_save(lz, namespace) == PyNone
Lazy_errors(lz, namespace) == PyNone
Lazy_json(lz) == PyNone

\* Lazy._map: pass, the relation is as before
Lazy_map(lz, val, init) == lz

\* an isinstance test that takes nothing for a Lazy
IsLazy_never(v) == FALSE

\* isinstance(v, Lazy)
IsLazy(v) == "cls" \in DOMAIN v /\ v.cls = "Lazy"

\* obj.update(r) inside `try: ... except Exception as e: pass` of base._save
\* and base._errors: update(None) raises TypeError and obj stays as it is
TryUpdate(obj, r) == IF r = PyNone THEN obj ELSE Update(obj, r)

\* Owner(): base.__init__ makes fresh instances of the declared members,
\* Document.__init__ sets _id = None and empties __hargs__, __hargskeys__
Owner ==
    [_id |-> PyNone, _inited |-> FALSE, hargs |-> EmptyMap, hargskeys |-> {},
     a |-> Field("Integer", FALSE),
     kids |-> Lazy("Kid", "owner"),
     pets |-> Lazy("Pet", "keeper")]

\* the members base.__init__ finds in the class
Owner_members == {"a", "kids", "pets"}

\* base.__init__: __keys__ takes the key of every member that is no Lazy
Owner_keys(o) == {k \in Owner_members : ~IsLazy(o[k])}

\* base._save() of an Owner
Owner_save(o) ==
    TryUpdate(TryUpdate(Field_save(o.a, "a"), Lazy_save(o.kids, "kids")),
              Lazy_save(o.pets, "pets"))

\* base._errors() of an Owner
Owner_errors(o) ==
    TryUpdate(TryUpdate(Field_errors(o.a, "a").errs, Lazy_errors(o.kids, "kids")),
              Lazy_errors(o.pets, "pets"))

\* base._json() of an Owner
Owner_json(o) ==
    LET member(k) == IF ~IsLazy(o[k]) THEN (k :> Lazy_json(o[k])) ELSE EmptyMap IN
    Update(Update(("a" :> Field_json(o.a)), member("kids")), member("pets"))

\* base._map(vals, init) of an Owner: a key missing in vals is passed over
Owner_map(o, vals, init) ==
    [o EXCEPT !._inited = TRUE,
              !.a = IF "a" \in DOMAIN vals THEN Field_map(@, RawObject(vals["a"]), init)
                    ELSE @,
              !.kids = IF "kids" \in DOMAIN vals THEN Lazy_map(@, vals["kids"], init)
                       ELSE @,
              !.pets = IF "pets" \in DOMAIN vals THEN Lazy_map(@, vals["pets"], init)
                       ELSE @]

\* what an operation on an Owner left behind; for a call of a Lazy: the
\* filter passed as query=, the caller's dictionary after the call, and the
\* query handed to find
LazyReturned(op, owner, rel) ==
    [op |-> op, owner |-> owner, rel |-> rel, filter |-> EmptyMap,
     caller |-> EmptyMap, query |-> EmptyMap]

InitLazy ==
    /\ owners = [o \in Owners |-> Owner]
    /\ _query = EmptyMap
    /\ lazyret = LazyReturned("__init__", "", "")

-----------------------------------------------------------------------------
(* Attribute assignment, on the classes

       class Halves(FieldValidator):
           def validate(self, val, doc=None):
               if val > 1: raise FieldException("too large")
               return 2 // val
       class Thing(Document):
           v   = Integer(validate=Halves)
           did = DocumentId(type=Child)

   One Thing instance is followed; each attribute of its __dict__ is a slot
   that holds a Field instance or, once replaced, a plain Python value. *)

\* the members base.__init__ instantiates, and an attribute name the class
\* does not declare
Declared == {"v", "did"}
Undeclared == "note"

\* self.__dict__.get(key, None) for a key that is not there
NoSlot == PyNone

\* the slot holds a Field instance
IsField(slot) == "kind" \in DOMAIN slot

\* Halves.validate (Python 2: None > 1 is False, a str > 1 is True)
Halves_validate(val) ==
    CASE val.t \in {"int", "bool"} ->
            IF val.n > 1 THEN Raised("too large")
            ELSE IF val.n = 0 THEN Raised("ZeroDivisionError")
            ELSE Cleaned(PyInt(2 \div val.n))
      [] val.t = "none" -> Raised("TypeError")
      [] OTHER -> Raised("too large")

\* the exceptions of the model that are no FieldException
OtherExceptions == {"ZeroDivisionError", "TypeError", "InvalidId", "AttributeError"}

\* Field._clean(val) of a field declared with validate=Halves: the validator
\* runs on the cleaned value, before _dirty and _value are set
_clean_validated(f, val, dirty) ==
    LET f0 == [f EXCEPT !._error = NoError] IN
    IF _isrequired(f, val) THEN [f |-> f0, exc |-> "Required Field"]
    ELSE LET c == clean(f, val) IN
         IF ~c.ok THEN [f |-> f0, exc |-> c.err]
         ELSE LET w == IF f._validate = "Halves" THEN Halves_validate(c.val) ELSE c IN
              IF ~w.ok THEN [f |-> f0, exc |-> w.err]
              ELSE [f |-> [f0 EXCEPT !._dirty = _clean_dirty(f, dirty), !._value = w.val],
                    exc |-> NoError]

\* base.__setattr__(key, val), on the slot of the key: the slot afterwards
\* and the except clause taken.  A FieldException is kept in the field; any
\* other exception (also the AttributeError of a slot that has no _clean)
\* ends in self.__dict__[key] = val
base_setattr(slot, val) ==
    IF ~IsField(slot) THEN [slot |-> val, caught |-> "AttributeError"]
    ELSE LET r == _clean_validated(slot, val, PyNone) IN
         IF r.exc = NoError THEN [slot |-> r.f, caught |-> NoError]
         ELSE IF r.exc \notin OtherExceptions
         THEN [slot |-> [r.f EXCEPT !._error = r.exc], caught |-> r.exc]
         ELSE [slot |-> val, caught |-> r.exc]

\* Thing(): the declared members are fresh Field instances
Thing ==
    [v |-> [kind |-> "Integer", _required |-> FALSE, _max |-> PyNone, _min |-> PyNone,
            _value |-> PyNone, _dirty |-> PyNone, _error |-> NoError,
            _validate |-> "Halves"],
     did |-> [kind |-> "DocumentId", _required |-> FALSE, _max |-> PyNone, _min |-> PyNone,
              _value |-> PyNone, _dirty |-> PyNone, _error |-> NoError,
              _validate |-> "None"],
     note |-> NoSlot]

\* what an assignment left behind: the key, the value, the except clause
\* taken and (history) the slots before it
Assigned(key, val, caught, before) ==
    [op |-> "__setattr__", key |-> key, arg |-> val, caught |-> caught, before |-> before]

InitAttr ==
    /\ thing = Thing
    /\ thingret = [Assigned("", PyNone, NoError, Thing) EXCEPT !.op = "__init__"]

-----------------------------------------------------------------------------
(* TimeStamp, on the class

       class Stamped(Document):
           ts = TimeStamp()
           a  = Integer()

   One Stamped instance is followed; utcnow is what datetime.datetime.utcnow()
   last returned to it. *)

\* a TimeStamp._save that leaves an unset field unset
TimeStamp_save_unset(f, namespace, t) == [f |-> f, delta |-> Field_save(f, namespace)]

\* TimeStamp._save(namespace) at the time t: the field afterwards and the
\* entry it adds to the delta
TimeStamp_save(f, namespace, t) ==
    LET f1 == IF PyEq(f._value, PyNone) THEN [f EXCEPT !._value = PyTime(t)] ELSE f IN
    [f |-> f1, delta |-> Field_save(f1, namespace)]

\* Stamped(): fresh fields, no _id
Stamped ==
    [_id |-> PyNone, _inited |-> FALSE,
     ts |-> Field("TimeStamp", FALSE), a |-> Field("Integer", FALSE)]

\* base._errors() of a Stamped
Stamped_errors(e) ==
    Update(Field_errors(e.ts, "ts").errs, Field_errors(e.a, "a").errs)

\* base._save() of a Stamped at the time t: the entity afterwards and the delta
Stamped_delta(e, t) ==
    LET s == TimeStamp_save(e.ts, "ts", t) IN
    [e |-> [e EXCEPT !.ts = s.f], delta |-> Update(s.delta, Field_save(e.a, "a"))]

\* base._json() of a Stamped
Stamped_json(e) == ("ts" :> Field_json(e.ts)) @@ ("a" :> Field_json(e.a))

\* base._map(vals, init) of a Stamped
Stamped_map(e, vals, init) ==
    [e EXCEPT !._inited = TRUE,
              !.ts = IF "ts" \in DOMAIN vals THEN Field_map(@, vals["ts"], init) ELSE @,
              !.a = IF "a" \in DOMAIN vals THEN Field_map(@, vals["a"], init) ELSE @]

\* what an operation on the Stamped left behind: the key or document it was
\* given, the exception raised, the document or delta it sent to the store
\* and (history) the entity before it
Stamping(op, arg, before) ==
    [op |-> op, arg |-> arg, raised |-> NoError, write |-> "none", sent |-> EmptyMap,
     before |-> before]

InitStamp ==
    /\ stamped = Stamped
    /\ utcnow = 0
    /\ stampret = Stamping("__init__", "", Stamped)

\* the state of everything outside the Doc and the Counted entities
InitExt == InitRel /\ InitLazy /\ InitAttr /\ InitStamp

-----------------------------------------------------------------------------
(* Inputs *)

\* values assigned to Doc.a (one valid, one that fails cleaning) and to the y
\* of an Emb (a required y fails validation until it is assigned)
AInputs == {PyInt(1), PyStr("x")}
YInputs == {PyStr("z")}
ElemInputs == {PyStr("x")}

\* objects handed to Doc.l.append
Other == [cls |-> "Other", _inited |-> FALSE, y |-> Field("Char", TRUE)]
AppendInputs == {Emb, Other}

\* documents find_one can return for the stored id
StoredDocs ==
    { [k \in __keys__ |-> CASE k = "a" -> RawVal(av)
                            [] k = "x" -> RawDict(TRUE, PyStr("x"))
                            [] k = "l" -> RawList(items)] :
      av \in {PyInt(0), PyInt(1)},
      items \in {<<>>, <<RawDict(TRUE, PyStr("x"))>>} }

\* pairs the driver can deliver for one stored document
StreamPairs ==
    {<<"_id", RawVal(ObjectId(1))>>,
     <<"a", RawVal(PyInt(0))>>, <<"a", RawVal(PyInt(1))>>,
     <<"x", RawDict(TRUE, PyStr("x"))>>,
     <<"l", RawList(<<>>)>>, <<"l", RawList(<<RawDict(TRUE, PyStr("x"))>>)>>,
     <<"__active__", RawVal(PyBool(TRUE))>>,
     <<"__created__", RawVal(PyTime(0))>>}

\* values and declarations of the single field of SpecField
FieldInputs ==
    {PyNone, PyInt(0), PyInt(1), PyInt(2), PyBool(FALSE), PyBool(TRUE),
     PyStr(""), PyStr(" "), PyStr("1"), PyStr("x")}
FieldKinds == {"Integer", "Char", "Boolean"}

-----------------------------------------------------------------------------
(* Operations *)

\* Doc(): Document.__init__ without id
Init ==
    /\ a = Field("Integer", FALSE)
    /\ x = Emb
    /\ l = <<>>
    /\ _id = PyNone
    /\ _inited = FALSE
    /\ hargs = EmptyMap
    /\ hargskeys = {}
    /\ created = PyNone
    /\ modified = PyNone
    /\ active = PyBool(TRUE)
    /\ clock = 0
    /\ coll = {ObjectId(1)}
    /\ lastWrite = NoWrite
    /\ ret = Returned("__init__", "ok")
    /\ baseline = EmptyMap
    /\ mapCount = 0
    /\ sequence = NoSequence
    /\ ents = [e \in Entities |-> Counted]
    /\ InitExt

\* doc.a = v
setattr_a(v) ==
    LET r == __setattr__(a, v) IN
    /\ a' = r.f
    /\ ret' = [Returned("__setattr__", IF r.exc = NoError THEN "ok" ELSE r.exc)
                  EXCEPT !.raised = __setattr__raises(a, v), !.arg = v]
    /\ lastWrite' = NoWrite
    /\ UNCHANGED <<ext, sequence, ents, x, l, _id, _inited, hargs, hargskeys, created, modified, active,
                   clock, coll, baseline, mapCount>>

\* doc.x.y = v
setattr_x_y(v) ==
    LET r == __setattr__(x.y, v) IN
    /\ x' = [x EXCEPT !.y = r.f]
    /\ ret' = [Returned("__setattr__", IF r.exc = NoError THEN "ok" ELSE r.exc)
                  EXCEPT !.raised = __setattr__raises(x.y, v), !.arg = v]
    /\ lastWrite' = NoWrite
    /\ UNCHANGED <<ext, sequence, ents, a, l, _id, _inited, hargs, hargskeys, created, modified, active,
                   clock, coll, baseline, mapCount>>

\* doc.l[i].y = v
setattr_l_y(i, v) ==
    LET r == __setattr__(l[i].y, v) IN
    /\ l' = [l EXCEPT ![i].y = r.f]
    /\ ret' = [Returned("__setattr__", IF r.exc = NoError THEN "ok" ELSE r.exc)
                  EXCEPT !.raised = __setattr__raises(l[i].y, v), !.arg = v]
    /\ lastWrite' = NoWrite
    /\ UNCHANGED <<ext, sequence, ents, a, x, _id, _inited, hargs, hargskeys, created, modified, active,
                   clock, coll, baseline, mapCount>>

\* doc.l.append(obj)
append(obj) ==
    LET r == List_append(l, obj) IN
    /\ l' = r.l
    /\ ret' = [Returned("append", IF r.exc = NoError THEN "ok" ELSE r.exc)
                  EXCEPT !.raised = r.exc]
    /\ lastWrite' = NoWrite
    /\ UNCHANGED <<ext, sequence, ents, a, x, _id, _inited, hargs, hargskeys, created, modified, active,
                   clock, coll, baseline, mapCount>>

\* Doc(id=...): Document.__init__ with an id, which ends in Document._doc()
_doc(doc) ==
    LET m == Doc_map(doc, TRUE) IN
    /\ ret.op = "__init__"
    /\ _id' = ObjectId(1)
    /\ a' = m.a /\ x' = m.x /\ l' = m.l
    /\ _inited' = TRUE
    /\ mapCount' = mapCount + 1
    /\ baseline' = LeafValues(m.a, m.x, m.l)
    /\ ret' = Returned("_doc", "ok")
    /\ lastWrite' = NoWrite
    /\ UNCHANGED <<ext, sequence, ents, hargs, hargskeys, created, modified, active, clock, coll>>

\* a completeness test that looks at the _id only
complete_idOnly(keys, id) == Truthy(id)

\* the test of Document.__setitem__ that starts the mapping pass
complete(keys, id) == __keys__ \subseteq keys /\ Truthy(id)

\* Document.__setitem__(key, val), called by the driver for each pair of a
\* document (a document holds every key once)
__setitem__(key, val) ==
    /\ key \notin hargskeys
    /\ key = "_id" => _id = PyNone
    /\ IF key # "_id"
       THEN LET h == Update(hargs, (key :> val))
                ks == hargskeys \cup {key}
                m == Doc_map(h, TRUE)
            IN  /\ hargs' = h
                /\ hargskeys' = ks
                /\ IF complete(ks, _id)
                   THEN /\ a' = m.a /\ x' = m.x /\ l' = m.l
                        /\ _inited' = TRUE
                        /\ mapCount' = mapCount + 1
                        /\ baseline' = LeafValues(m.a, m.x, m.l)
                   ELSE UNCHANGED <<a, x, l, _inited, mapCount, baseline>>
                /\ UNCHANGED _id
       ELSE /\ _id' = RawObject(val)
            /\ UNCHANGED <<a, x, l, _inited, mapCount, baseline, hargs, hargskeys>>
    /\ ret' = Returned("__setitem__", "ok")
    /\ lastWrite' = NoWrite
    /\ UNCHANGED <<ext, sequence, ents, created, modified, active, clock, coll>>

\* Document.save()
save ==
    LET er == Doc_errors
        now == PyTime(clock + 1)
        stamps == [k \in {"__created__", "__modified__", "__active__"} |->
                     IF k = "__active__" THEN PyBool(TRUE) ELSE now]
    IN
    IF DOMAIN er.errs # {}
    THEN /\ a' = er.a /\ x' = er.x /\ l' = er.l
         /\ ret' = [Returned("save", "DocumentException")
                       EXCEPT !.errors = er.errs, !.raised = "DocumentException"]
         /\ lastWrite' = NoWrite
         /\ UNCHANGED <<ext, sequence, ents, _id, _inited, hargs, hargskeys, created, modified, active,
                        clock, coll, baseline, mapCount>>
    ELSE /\ clock < MaxClock
         /\ clock' = clock + 1
         /\ modified' = now
         /\ IF ~Truthy(_id)
            THEN /\ created' = now
                 /\ active' = PyBool(TRUE)
                 /\ lastWrite' = [op |-> "insert", id |-> NewId, set |-> EmptyMap,
                                  doc |-> Update(Doc_json, stamps)]
                 /\ _id' = NewId
                 /\ coll' = coll \cup {NewId}
            ELSE /\ lastWrite' = [op |-> "update", id |-> _id,
                                  set |-> Update(Doc_save, ("__modified__" :> now)),
                                  doc |-> EmptyMap]
                 /\ UNCHANGED <<_id, coll, created, active>>
         /\ ret' = Returned("save", "ok")
         /\ baseline' = LeafValues(a, x, l)
         /\ UNCHANGED <<ext, sequence, ents, a, x, l, _inited, hargs, hargskeys, mapCount>>

Next ==
    \/ \E v \in AInputs : setattr_a(v)
    \/ \E v \in YInputs : setattr_x_y(v)
    \/ \E i \in 1..Len(l), v \in ElemInputs : setattr_l_y(i, v)
    \/ \E obj \in AppendInputs : append(obj)
    \/ \E doc \in StoredDocs : _doc(doc)
    \/ save

Spec == Init /\ [][Next]_vars

-----------------------------------------------------------------------------
(* One leaf field on its own: Doc.a declared as any kind, required or not *)

InitField ==
    /\ a \in {Field(kind, required) : kind \in FieldKinds, required \in BOOLEAN}
    /\ x = Emb
    /\ l = <<>>
    /\ _id = PyNone
    /\ _inited = FALSE
    /\ hargs = EmptyMap
    /\ hargskeys = {}
    /\ created = PyNone
    /\ modified = PyNone
    /\ active = PyBool(TRUE)
    /\ clock = 0
    /\ coll = {ObjectId(1)}
    /\ lastWrite = NoWrite
    /\ ret = Returned("__init__", "ok")
    /\ baseline = EmptyMap
    /\ mapCount = 0
    /\ sequence = NoSequence
    /\ ents = [e \in Entities |-> Counted]
    /\ InitExt

\* doc._get("a")._map(v, init=True): the initial load of the field
map_a(v) ==
    LET f == Field_map(a, v, TRUE) IN
    /\ a' = f
    /\ ret' = Returned("_map", IF f._error = NoError THEN "ok" ELSE f._error)
    /\ baseline' = IF f._error = NoError THEN ("a" :> f._value) ELSE baseline
    /\ lastWrite' = NoWrite
    /\ UNCHANGED <<ext, sequence, ents, x, l, _id, _inited, hargs, hargskeys, created, modified, active,
                   clock, coll, mapCount>>

\* doc._get("a")._save("a")
save_a ==
    /\ ret' = [Returned("_save", "ok") EXCEPT !.delta = Field_save(a, "a")]
    /\ lastWrite' = NoWrite
    /\ UNCHANGED <<ext, sequence, ents, a, x, l, _id, _inited, hargs, hargskeys, created, modified, active,
                   clock, coll, baseline, mapCount>>

\* f = D(); f._map(doc._json(), init=True) for the class D of the one field a:
\* the field a of the fresh f is kept in ret.arg
roundtrip ==
    LET doc == ("a" :> Field_json(a))
        fresh == Field(a.kind, a._required)
    IN  /\ ret' = [Returned("roundtrip", "ok")
                      EXCEPT !.arg = Field_map(fresh, doc["a"], TRUE)]
        /\ lastWrite' = NoWrite
        /\ UNCHANGED <<ext, sequence, ents, a, x, l, _id, _inited, hargs, hargskeys, created, modified,
                       active, clock, coll, baseline, mapCount>>

NextField ==
    \/ \E v \in FieldInputs : setattr_a(v)
    \/ \E v \in FieldInputs : map_a(v)
    \/ save_a
    \/ roundtrip

SpecField == InitField /\ [][NextField]_vars

-----------------------------------------------------------------------------
(* One streamed load: the driver fills a fresh Doc pair by pair *)

NextStream == \E p \in StreamPairs : __setitem__(p[1], p[2])

SpecStream == Init /\ [][NextStream]_vars

-----------------------------------------------------------------------------
(* Properties *)

\* a leaf fails validation: an error is stored on it, or it is required and empty
Failing(f) == f._error # NoError \/ (f._required /\ InEMPTY(f._value))
ErrorOf(f) == IF f._required /\ InEMPTY(f._value) THEN "Required Field" ELSE f._error
ElemPath(i) == Join(IndexPath("l", i), "y")
FailingPaths ==
    (IF Failing(a) THEN {"a"} ELSE {}) \cup (IF Failing(x.y) THEN {"x.y"} ELSE {})
    \cup {ElemPath(i) : i \in {j \in 1..Len(l) : Failing(l[j].y)}}

\* C1: save() validates the whole tree first.  When a leaf at the top level,
\* in the embedded composite or in a container element fails validation,
\* save() raises DocumentException carrying exactly the failing dotted paths,
\* each with its error, and issues no insert or update.
C1_SaveValidatesFirst ==
    [][(ret'.op = "save" /\ FailingPaths # {}) =>
          /\ ret'.status = "DocumentException"
          /\ DOMAIN ret'.errors = FailingPaths
          /\ Failing(a) => ret'.errors["a"] = ErrorOf(a)
          /\ Failing(x.y) => ret'.errors["x.y"] = ErrorOf(x.y)
          /\ \A i \in 1..Len(l) :
                Failing(l[i].y) => ret'.errors[ElemPath(i)] = ErrorOf(l[i].y)
          /\ lastWrite'.op = "none"
          /\ coll' = coll
          /\ _id' = _id]_vars

\* C1 witness: a save rejected for a failing leaf at each of the three places
C1_Witness ==
    /\ ret.op = "save"
    /\ ret.status = "DocumentException"
    /\ DOMAIN ret.errors = {"a", "x.y", "l.0.y"}
    /\ ret.errors["a"] = "not a valid integer"
    /\ lastWrite.op = "none"

\* C2 (as claimed): after a successful save() every field has current equal to
\* baseline, so that the delta a second save() would compute is empty.
C2_SaveRebaselines ==
    (ret.op = "save" /\ ret.status = "ok") =>
        /\ PyEq(a._value, a._dirty)
        /\ PyEq(x.y._value, x.y._dirty)
        /\ \A i \in 1..Len(l) : PyEq(l[i].y._value, l[i].y._dirty)
        /\ Doc_save = EmptyMap

\* C3 (as claimed): right after an initial load _map(v, init=True) whose value
\* passes cleaning, current equals baseline and _save(path) is empty.
C3_InitialLoadIsClean ==
    (ret.op = "_map" /\ ret.status = "ok") =>
        /\ PyEq(a._value, a._dirty)
        /\ Field_save(a, "a") = EmptyMap

\* C4 (as claimed): for a loaded leaf, after a successful direct assignment
\* _save(path) is {path: current} when current differs from the loaded
\* baseline, and empty exactly when current equals it.
C4_DeltaFollowsBaseline ==
    (ret.op = "__setattr__" /\ ret.status = "ok" /\ "a" \in DOMAIN baseline) =>
        Field_save(a, "a") =
            IF ~PyEq(a._value, baseline["a"]) THEN ("a" :> a._value) ELSE EmptyMap

\* C5 (as claimed): a direct assignment, successful or not, leaves _dirty
\* unchanged.
C5_AssignKeepsDirty ==
    [][ret'.op = "__setattr__" => a'._dirty = a._dirty]_vars

\* the leaves whose value differs from the value at the last load or save
Changed ==
    LET cur == LeafValues(a, x, l) IN
    {p \in DOMAIN cur : p \notin DOMAIN baseline \/ ~PyEq(cur[p], baseline[p])}

\* C6 (as claimed): when exactly one leaf of a loaded Doc changed after load,
\* the update save() writes sets that path and the modified stamp only.
C6_PartialUpdateIsMinimal ==
    [][(/\ ret'.op = "save" /\ ret'.status = "ok"
        /\ _inited /\ _id # PyNone
        /\ DOMAIN LeafValues(a, x, l) = DOMAIN baseline
        /\ Cardinality(Changed) = 1) =>
          /\ lastWrite'.op = "update"
          /\ \A p \in Changed :
                lastWrite'.set = Update((p :> LeafValues(a, x, l)[p]),
                                        ("__modified__" :> modified'))]_vars

\* C7: a successful save() of a Doc without _id issues one insert of the full
\* document (every declared key, the created and modified stamps, active true)
\* and takes the _id the store returns; with an _id it issues a $set update
\* scoped to that _id, inserts nothing and keeps the _id.
C7_InsertThenUpdate ==
    [][(ret'.op = "save" /\ ret'.status = "ok") =>
          IF _id = PyNone
          THEN /\ lastWrite'.op = "insert"
               /\ DOMAIN lastWrite'.doc =
                     __keys__ \cup {"__created__", "__modified__", "__active__"}
               /\ lastWrite'.doc["a"] = a._value
               /\ lastWrite'.doc["x"] = [y |-> x.y._value]
               /\ lastWrite'.doc["l"] = [i \in 1..Len(l) |-> [y |-> l[i].y._value]]
               /\ lastWrite'.doc["__created__"] = created'
               /\ lastWrite'.doc["__modified__"] = modified'
               /\ created'.t = "datetime" /\ modified'.t = "datetime"
               /\ lastWrite'.doc["__active__"] = PyBool(TRUE)
               /\ _id' = lastWrite'.id
               /\ _id' \notin coll
               /\ coll' = coll \cup {_id'}
          ELSE /\ lastWrite'.op = "update"
               /\ lastWrite'.id = _id
               /\ _id' = _id
               /\ coll' = coll]_vars

\* C7 witness: a Doc inserted by its first save and updated by its second
C7_Witness ==
    /\ ret.op = "save"
    /\ ret.status = "ok"
    /\ lastWrite.op = "update"
    /\ lastWrite.id = ObjectId(2)
    /\ _id = ObjectId(2)
    /\ coll = {ObjectId(1), ObjectId(2)}

\* C8: while a declared key has not arrived through __setitem__, or no _id is
\* present, no mapping pass has run and the Doc is not loaded.
C8_NoMapBeforeComplete ==
    (mapCount > 0 \/ _inited) => (__keys__ \subseteq hargskeys /\ _id # PyNone)

\* C8 witness: the _id and two of the three declared keys have arrived, and
\* the Doc is still not mapped
C8_Witness ==
    /\ _id # PyNone
    /\ hargskeys = {"l", "x"}
    /\ ~_inited
    /\ mapCount = 0
    /\ ret.op = "__setitem__"

\* C9 (as claimed): during one streamed load the mapping pass runs at most
\* once; pairs arriving after completeness do not map again.
C9_MapsOnce == mapCount <= 1

\* C10 (as claimed): whatever the order of arrival, once every declared key
\* and the _id have been delivered the Doc is loaded.
C10_LoadedWhenComplete ==
    (__keys__ \subseteq hargskeys /\ _id # PyNone) => _inited

\* the empty values of the claim: "", " " and None
EmptyInputs == {PyStr(""), PyStr(" "), PyNone}

\* C11: a required field assigned "", " " or None fails with the
\* required-field error, and the failed assignment leaves _value and _dirty
\* as they were.
C11_RequiredRejectsEmpty ==
    [][(ret'.op = "__setattr__" /\ a._required /\ ret'.arg \in EmptyInputs) =>
          /\ ret'.status = "Required Field"
          /\ a'._error = "Required Field"
          /\ a'._value = a._value
          /\ a'._dirty = a._dirty]_vars

\* C11 witness: a required field holding "x" has just refused " "
C11_Witness ==
    /\ ret.op = "__setattr__"
    /\ ret.arg = PyStr(" ")
    /\ ret.status = "Required Field"
    /\ a._required
    /\ a._value = PyStr("x")
    /\ a._error = "Required Field"

\* C12 (as claimed): a direct assignment that fails cleaning raises its error
\* to the caller of the assignment; a failing mapping pass raises nothing and
\* records the error in the field.
C12_AssignSurfacesError ==
    /\ (ret.op = "__setattr__" /\ ret.status # "ok") =>
          (ret.raised = ret.status /\ ret.raised # NoError)
    /\ (ret.op = "_map" /\ ret.status # "ok") =>
          (ret.raised = NoError /\ a._error = ret.status)

-----------------------------------------------------------------------------
(* One Integer field declared with bounds: a = Integer(min=mn, max=mx) *)

\* Field.__init__ stores the keyword arguments min and max as _min and _max
BoundedInteger(mn, mx) ==
    [Field("Integer", FALSE) EXCEPT !._min = PyInt(mn), !._max = PyInt(mx)]

\* the limits declared, and the integers assigned (one beyond the limits on
\* either side, 0 and negative numbers included)
LimitRange == (0 - MaxInt)..MaxInt
BoundInputs == {PyInt(v) : v \in (0 - MaxInt - 1)..(MaxInt + 1)}

InitBound ==
    /\ a \in {BoundedInteger(mn, mx) : mn \in LimitRange, mx \in LimitRange}
    /\ a._min.n <= a._max.n
    /\ x = Emb
    /\ l = <<>>
    /\ _id = PyNone
    /\ _inited = FALSE
    /\ hargs = EmptyMap
    /\ hargskeys = {}
    /\ created = PyNone
    /\ modified = PyNone
    /\ active = PyBool(TRUE)
    /\ clock = 0
    /\ coll = {ObjectId(1)}
    /\ lastWrite = NoWrite
    /\ ret = Returned("__init__", "ok")
    /\ baseline = EmptyMap
    /\ mapCount = 0
    /\ sequence = NoSequence
    /\ ents = [e \in Entities |-> Counted]
    /\ InitExt

NextBound == \E v \in BoundInputs : setattr_a(v)

SpecBound == InitBound /\ [][NextBound]_vars

\* C13 (as claimed): assigning the integer v to an Integer field with bounds
\* min <= max succeeds and reads back as v iff min <= v <= max; v > max fails
\* with the max error, v < min with the min error, and a failed assignment
\* leaves the value unchanged.
C13_BoundsEnforced ==
    [][ret'.op = "__setattr__" =>
          LET v == ret'.arg.n IN
          /\ (a._min.n <= v /\ v <= a._max.n) =>
                (ret'.status = "ok" /\ a'._value = PyInt(v))
          /\ v > a._max.n =>
                (ret'.status = "MaxException" /\ a'._value = a._value)
          /\ v < a._min.n =>
                (ret'.status = "MinException" /\ a'._value = a._value)]_vars

\* C14: append(obj) checks the maximum length and the class of obj before it
\* mutates: appending an object of another class, or appending to a list
\* that is full, raises and leaves the list as it was; a list never grows
\* beyond its maximum length and holds only objects of the declared class.
C14_AppendChecksFirst ==
    [][/\ \A obj \in AppendInputs :
             (obj.cls # "Emb" \/ Len(l) >= MaxLen) =>
                 (List_append(l, obj).exc # NoError /\ List_append(l, obj).l = l)
       /\ ret'.op = "append" =>
             /\ ret'.raised # NoError => l' = l
             /\ ret'.raised = NoError =>
                   /\ Len(l) < MaxLen
                   /\ Len(l') = Len(l) + 1
                   /\ SubSeq(l', 1, Len(l)) = l
                   /\ l'[Len(l')].cls = "Emb"
       /\ Len(l') <= MaxLen
       /\ \A i \in 1..Len(l') : l'[i].cls = "Emb"]_vars

\* C14 witness: an append to a full list has just been refused
C14_Witness ==
    /\ ret.op = "append"
    /\ ret.raised = "max length exceeded"
    /\ Len(l) = MaxLen
    /\ \A i \in 1..Len(l) : l[i].cls = "Emb"

-----------------------------------------------------------------------------
(* The container on its own: Doc.l is loaded, appended to and assigned *)

\* raw items of a stored array: a well-formed one, one without the key y, and
\* one that is no mapping at all
RawItems == {RawDict(TRUE, PyStr("x")), RawDict(FALSE, PyNone), RawVal(PyInt(5))}

\* raw arrays, up to one item more than Doc.l may hold
RawArrays == UNION {[1..n -> RawItems] : n \in 0..(MaxLen + 1)}

\* doc._get("l")._map(items, init=True)
map_l(items) ==
    LET r == List_map(l, items, TRUE) IN
    /\ l' = r.l
    /\ ret' = [Returned("List._map", IF r.exc = NoError THEN "ok" ELSE r.exc)
                  EXCEPT !.raised = r.exc, !.arg = RawList(items)]
    /\ lastWrite' = NoWrite
    /\ UNCHANGED <<ext, sequence, ents, a, x, _id, _inited, hargs, hargskeys, created, modified, active,
                   clock, coll, baseline, mapCount>>

NextList ==
    \/ \E items \in RawArrays : map_l(items)
    \/ \E obj \in AppendInputs : append(obj)
    \/ \E i \in 1..Len(l), v \in ElemInputs : setattr_l_y(i, v)

SpecList == Init /\ [][NextList]_vars

\* C15 (as claimed): List._map never raises; every raw item is loaded, in
\* order, behind what the list held: a typed child mapped from the item, or
\* the raw item itself when no typed child can be mapped from it.
C15_MapToleratesItems ==
    [][ret'.op = "List._map" =>
          LET items == ret'.arg.items IN
          /\ ret'.raised = NoError
          /\ Len(l') = Len(l) + Len(items)
          /\ SubSeq(l', 1, Len(l)) = l
          /\ \A i \in 1..Len(items) :
                l'[Len(l) + i] = IF items[i].rt = "dict"
                                 THEN base_map(Emb, items[i], TRUE)
                                 ELSE items[i]]_vars

-----------------------------------------------------------------------------
(* Mapping passes over sparse and malformed raw documents *)

\* raw values per key: a valid and a malformed one, and for x a mapping
\* without the key y
RawChoices ==
    [a |-> {RawVal(PyInt(1)), RawVal(PyStr("x"))},
     x |-> {RawDict(TRUE, PyStr("x")), RawDict(TRUE, PyStr("")), RawDict(FALSE, PyNone)},
     l |-> {RawList(<<RawDict(TRUE, PyStr("x"))>>)}]

\* raw documents: any subset of the declared keys, each with one of its values
RawDocs ==
    {[k \in ks |-> full[k]] :
        full \in [a : RawChoices.a, x : RawChoices.x, l : RawChoices.l],
        ks \in SUBSET __keys__}

\* what leaves base._map: every child is mapped inside its own try/except
_map_raises(vals, init) == NoError

\* doc._map(vals, init)
_map(vals, init) ==
    LET m == Doc_map(vals, init) IN
    /\ a' = m.a /\ x' = m.x /\ l' = m.l
    /\ _inited' = TRUE
    /\ ret' = [Returned("base._map", "ok")
                  EXCEPT !.raised = _map_raises(vals, init),
                         !.arg = [vals |-> vals, init |-> init]]
    /\ lastWrite' = NoWrite
    /\ UNCHANGED <<ext, sequence, ents, _id, hargs, hargskeys, created, modified, active,
                   clock, coll, baseline, mapCount>>

NextMap == \E vals \in RawDocs, init \in BOOLEAN : _map(vals, init)

SpecMap == Init /\ [][NextMap]_vars

\* the raw values of RawChoices that fail cleaning: "x" is no integer, and y
\* is required
BadA == {PyStr("x")}
BadY == {PyStr("")}

\* C16: base._map(vals, init) never raises.  A leaf whose raw value fails
\* cleaning keeps its value and baseline and holds the error, which _errors
\* reports under the leaf's dotted path; every other child whose key is
\* present is mapped; a child whose key is missing is left as it was.
C16_MapRecordsErrors ==
    [][ret'.op = "base._map" =>
          LET vals == ret'.arg.vals
              init == ret'.arg.init
              hasA == "a" \in DOMAIN vals
              hasY == "x" \in DOMAIN vals /\ vals["x"].hasy
          IN
          /\ ret'.raised = NoError
          /\ ~hasA => a' = a
          /\ (hasA /\ vals["a"].v \in BadA) =>
                /\ a'._error = "not a valid integer"
                /\ a'._value = a._value /\ a'._dirty = a._dirty
                /\ "a" \in DOMAIN Field_errors(a', "a").errs
          /\ (hasA /\ vals["a"].v \notin BadA) =>
                (a'._value = vals["a"].v /\ a'._error = NoError)
          /\ ~hasY => x'.y = x.y
          /\ (hasY /\ vals["x"].y \in BadY) =>
                /\ x'.y._error = "Required Field"
                /\ x'.y._value = x.y._value /\ x'.y._dirty = x.y._dirty
                /\ "x.y" \in DOMAIN base_errors(x', "x").errs
          /\ (hasY /\ vals["x"].y \notin BadY) =>
                (x'.y._value = vals["x"].y /\ x'.y._error = NoError)
          /\ "l" \notin DOMAIN vals => l' = l
          /\ "l" \in DOMAIN vals => l' = List_map(l, vals["l"].items, init).l]_vars

\* C16 witness: a pass over a document without the key l, whose a is
\* malformed and whose x is well-formed, on a Doc that held a = 1
C16_Witness ==
    /\ ret.op = "base._map"
    /\ DOMAIN ret.arg.vals = {"a", "x"}
    /\ ret.arg.vals["a"].v \in BadA
    /\ a._value = PyInt(1)
    /\ a._error = "not a valid integer"
    /\ x.y._value = PyStr("x")
    /\ x.y._error = NoError

\* C17 (as claimed): mapping the serialized document of an entity into a
\* fresh entity of the same class gives equal values, field for field,
\* whether the field was assigned or never assigned.
C17_RoundTrip ==
    ret.op = "roundtrip" => PyEq(ret.arg._value, a._value)

-----------------------------------------------------------------------------
(* Removal: a Doc is loaded or assigned, saved and removed *)

\* Document.remove(): the collection drops the document with this _id;
\* nothing of the instance changes
remove ==
    /\ coll' = coll \ {_id}
    /\ lastWrite' = [NoWrite EXCEPT !.op = "remove", !.id = _id]
    /\ ret' = Returned("remove", "ok")
    /\ UNCHANGED <<ext, sequence, ents, a, x, l, _id, _inited, hargs, hargskeys, created, modified,
                   active, clock, baseline, mapCount>>

NextRemove ==
    \/ \E v \in AInputs : setattr_a(v)
    \/ \E v \in YInputs : setattr_x_y(v)
    \/ \E doc \in StoredDocs : _doc(doc)
    \/ save
    \/ remove

SpecRemove == Init /\ [][NextRemove]_vars

\* C18 (as claimed): a save() that reports success leaves a document for the
\* entity in the store, also after remove(): the save of a removed entity is
\* rejected or inserts the document again.
C18_RemovedIsInert ==
    (ret.op = "save" /\ ret.status = "ok") => _id \in coll

-----------------------------------------------------------------------------
(* Counted entities saved side by side *)

docVars == <<a, x, l, _id, _inited, hargs, hargskeys, created, modified, active,
             clock, coll, lastWrite, ret, baseline, mapCount>>

\* what the operations on the Parent, on the Owners, on the Thing and on
\* the Stamped leave alone
notRel == <<docVars, sequence, ents, lazyVars, attrVars, stampVars>>
notLazy == <<docVars, sequence, ents, relVars, attrVars, stampVars>>
notAttr == <<docVars, sequence, ents, relVars, lazyVars, stampVars>>
notStamp == <<docVars, sequence, ents, relVars, lazyVars, attrVars>>

\* ent.a = v, between two calls
Counted_setattr_a(e, v) ==
    /\ ents[e].pc = "idle"
    /\ ents' = [ents EXCEPT ![e].a = __setattr__(@, v).f]
    /\ UNCHANGED <<docVars, ext, sequence>>

\* ent.save() or ent._save() begins: save() runs _errors() first and raises
\* DocumentException when a field holds an error; otherwise base._save
\* reaches AutoIncrement._save
Counted_call(e, op) ==
    /\ ents[e].pc = "idle"
    /\ ents[e].calls < MaxCalls
    /\ ents' = [ents EXCEPT ![e].calls = @ + 1,
                            ![e].op = op,
                            ![e].pc = IF op = "save" /\ Failing(ents[e].a)
                                      THEN "idle" ELSE "_save"]
    /\ UNCHANGED <<docVars, ext, sequence>>

\* AutoIncrement._save: the test and, when the field holds None, the
\* find_and_modify call
AutoIncrement_fetch(e) ==
    /\ ents[e].pc = "_save"
    /\ IF NeedsFetch(ents[e].n)
       THEN /\ sequence' = find_and_modify(sequence)
            /\ ents' = [ents EXCEPT ![e].res = PyInt(sequence'.val),
                                    ![e].fetches = @ + 1,
                                    ![e].first = IF ents[e].fetches = 0
                                                 THEN PyInt(sequence'.val) ELSE @,
                                    ![e].pc = "fetched"]
       ELSE /\ ents' = [ents EXCEPT ![e].pc = "return"]
            /\ UNCHANGED sequence
    /\ UNCHANGED <<docVars, ext>>

\* AutoIncrement._save: self._value = res['val']
AutoIncrement_assign(e) ==
    /\ ents[e].pc = "fetched"
    /\ ents' = [ents EXCEPT ![e].n._value = ents[e].res, ![e].pc = "return"]
    /\ UNCHANGED <<docVars, ext, sequence>>

\* base._save returns; save() goes on to insert (taking the _id of the store)
\* or to update
Counted_return(e) ==
    /\ ents[e].pc = "return"
    /\ ents' = [ents EXCEPT ![e].pc = "idle",
                            ![e]._id = IF ents[e].op = "save" /\ ~Truthy(@)
                                       THEN PyStr(e) ELSE @]
    /\ UNCHANGED <<docVars, ext, sequence>>

NextAuto ==
    \/ \E e \in Entities : Counted_setattr_a(e, PyInt(1))
    \/ \E e \in Entities, op \in {"save", "_save"} : Counted_call(e, op)
    \/ \E e \in Entities : AutoIncrement_fetch(e)
    \/ \E e \in Entities : AutoIncrement_assign(e)
    \/ \E e \in Entities : Counted_return(e)

SpecAuto == Init /\ [][NextAuto]_vars

\* the entities that have fetched a value from the counter
Fetched == {e \in Entities : ents[e].res # PyNone}

\* C19: entities saved side by side, in any interleaving, obtain their
\* values by one atomic fetch-and-increment each: no two of them obtain the
\* same value, and the counter has advanced by exactly the number of fetches.
C19_UniqueValues ==
    /\ \A e1, e2 \in Fetched : e1 # e2 => ents[e1].res # ents[e2].res
    /\ \A e1, e2 \in Entities :
          (e1 # e2 /\ ents[e1].n._value # PyNone /\ ents[e2].n._value # PyNone) =>
              ents[e1].n._value # ents[e2].n._value
    /\ sequence.val = sequence.fetches
    /\ sequence.val = Cardinality(Fetched)

\* C19 witness: two entities inside AutoIncrement._save at the same time,
\* both between the fetch and the assignment
C19_Witness ==
    /\ \A e \in Entities : ents[e].pc = "fetched"
    /\ {ents[e].res : e \in Entities} = {PyInt(1), PyInt(2)}
    /\ sequence.val = 2

\* C20: an AutoIncrement field fetches from the counter once per entity, at
\* the first _save that finds it without value; whatever assignments to
\* other fields, diffs and saves follow, it does not fetch again and keeps
\* the value first obtained.
C20_FetchesOnce ==
    \A e \in Entities :
        /\ ents[e].fetches <= 1
        /\ ents[e].fetches = 0 => ents[e].n._value = PyNone
        /\ (ents[e].fetches = 1 /\ ents[e].pc # "fetched") =>
              (ents[e].n._value = ents[e].first /\ ents[e].first # PyNone)
        /\ (ents[e].calls > 0 /\ ents[e].pc = "idle" /\ ~Failing(ents[e].a)) =>
              ents[e].fetches = 1

\* C20 witness: an entity that was diffed and saved after an assignment to
\* its other field, and holds the value of its one fetch
C20_Witness ==
    \E e \in Entities :
        /\ ents[e].calls = MaxCalls
        /\ ents[e].pc = "idle"
        /\ ents[e].op = "save"
        /\ ents[e]._id # PyNone
        /\ ents[e].a._value = PyInt(1)
        /\ ents[e].fetches = 1
        /\ ents[e].n._value = ents[e].first
        /\ ents[e].first # PyNone

-----------------------------------------------------------------------------
(* Eager relations: a Parent is assigned references and dereferences them *)

\* values assigned to a relation: None, a stored Child, a Child whose
\* document is gone from the collection, a Child never saved, a document of
\* another class
RelInputs == {PyNone, ChildValue(1), ChildValue(2), ChildValue(0), OtherValue}

\* parent.<key> = val
Parent_setattr(key, val) ==
    LET r == __setattr__(parent[key], val) IN
    /\ parent' = [parent EXCEPT ![key] =
                    [r.f EXCEPT !.seen = IF StoredId(r.f) = StoredId(parent[key])
                                         THEN @ ELSE NotSeen]]
    /\ relret' = [RelReturned("__setattr__", key) EXCEPT
                    !.raised = __setattr__raises(parent[key], val)]
    /\ UNCHANGED <<notRel, childColl>>

\* parent.ref, parent.dref (base.__getattribute__ calls _get_value, which
\* calls the field) and parent._get("did")()
dereference(key) ==
    LET c == __call__(parent[key], childColl) IN
    /\ parent' = [parent EXCEPT ![key] =
                    [c.f EXCEPT !.seen =
                        IF c.raised = NoError
                        THEN [id |-> StoredId(c.f),
                              result |-> IF c.result = PyNone THEN "None" ELSE "instance"]
                        ELSE @]]
    /\ relret' = [RelReturned("__call__", key) EXCEPT
                    !.result = c.result, !.raised = c.raised, !.queries = c.queries,
                    !.cached = c.cached, !.before = parent[key].seen]
    /\ UNCHANGED <<notRel, childColl>>

\* the relations do not touch each other's state: a behaviour works with one
\* of them
Using(key) == relret.key \in {"", key}

NextRel ==
    \/ \E key \in EagerKeys, val \in RelInputs : Using(key) /\ Parent_setattr(key, val)
    \/ \E key \in EagerKeys : Using(key) /\ dereference(key)

SpecRel == Init /\ [][NextRel]_vars

-----------------------------------------------------------------------------
(* Claims about eager relations *)

\* C21 (as claimed): when a relation is dereferenced again while the id it
\* stores is the one of the last dereference that returned, the call returns
\* what that dereference returned (the cached instance) and sends no query
\* to the store; and a dereference that returns an instance returns one with
\* the id stored now.
C21_CachedDereference ==
    relret.op = "__call__" =>
        LET f == parent[relret.key] IN
        /\ (relret.before.id # 0 /\ relret.before.id = StoredId(f)) =>
              /\ relret.raised = NoError
              /\ relret.queries = 0
              /\ relret.before.result = "instance" => relret.cached
              /\ relret.before.result = "None" => relret.result = PyNone
        /\ (relret.raised = NoError /\ relret.result # PyNone) =>
              relret.result._id = ObjectId(StoredId(f))

\* C23 (as claimed): dereferencing a relation that stores no id raises.
C23_UnsetReferenceRaises ==
    (relret.op = "__call__" /\ StoredId(parent[relret.key]) = 0) =>
        relret.raised # NoError

-----------------------------------------------------------------------------
(* Cascading saves: the entities obtained from the relations are changed and
   the Parent is saved *)

\* values assigned to the field a of a Child obtained from a relation
ChildInputs == {PyInt(2), PyStr("x")}

\* the field holds an instance in __dyninst__
Holds(f) == f.__dyninst__ # NoAttr /\ f.__dyninst__ # PyNone

\* c.a = v on the Child c that parent.<key> returned: c is the object the
\* field keeps in __dyninst__
Child_setattr_a(key, v) ==
    /\ Holds(parent[key])
    /\ parent' = [parent EXCEPT ![key].__dyninst__.a = __setattr__(@, v).f]
    /\ relret' = RelReturned("Child.__setattr__", key)
    /\ UNCHANGED <<notRel, childColl>>

\* a write sent to the store: the collection, the _id, the relation it was
\* sent for
Write(collection, id, via) == [coll |-> collection, id |-> id, via |-> via]

\* Document.save of a Child that has an _id: validation, then
\* update({"_id": _id}, {"$set": delta}); the exception raised, the write
\* sent and the collection afterwards
Child_save(c, store, via) ==
    IF Field_errors(c.a, "a").errs # EmptyMap
    THEN [raised |-> "DocumentException", writes |-> <<>>, store |-> store]
    ELSE LET delta == Field_save(c.a, "a") IN
         [raised |-> NoError,
          writes |-> <<Write("Child", c._id.n, via)>>,
          store |-> IF store[c._id.n] # NoDocument /\ "a" \in DOMAIN delta
                    THEN [store EXCEPT ![c._id.n].a = delta["a"]]
                    ELSE store]

\* DynamicDocument._save(namespace) as base._save sees it: the entry it adds
\* to the delta, the writes of the cascaded save and the collection
\* afterwards.  An exception of __dyninst__.save() leaves the method, and
\* base._save passes over it
DynamicDocument_save(f, namespace, store) ==
    IF f.__dyninst__ = NoAttr
    THEN [delta |-> Field_save(f, namespace), writes |-> <<>>, store |-> store]
    ELSE IF f.__dyninst__ = PyNone
    THEN [delta |-> EmptyMap, writes |-> <<>>, store |-> store]
    ELSE LET s == Child_save(f.__dyninst__, store, namespace) IN
         [delta |-> IF s.raised = NoError THEN Field_save(f, namespace) ELSE EmptyMap,
          writes |-> s.writes, store |-> s.store]

\* the orders in which base._save can meet the two relations that cascade
CascadeOrders == {<<"ref", "dref">>, <<"dref", "ref">>}

\* Parent._errors()
Parent_errors(p) ==
    Update(Update(Field_errors(p.ref, "ref").errs, Field_errors(p.dref, "dref").errs),
           Field_errors(p.did, "did").errs)

\* Parent._save(), the relations met in the given order; the Lazy kids adds
\* nothing
Parent_save_delta(p, store, order) ==
    LET s1 == DynamicDocument_save(p[order[1]], order[1], store)
        s2 == DynamicDocument_save(p[order[2]], order[2], s1.store)
    IN  [delta |-> Update(Update(s1.delta, s2.delta), Field_save(p.did, "did")),
         writes |-> s1.writes \o s2.writes,
         store |-> s2.store]

\* parent.save(); fails: the store raises on the Parent's insert or update
Parent_save(order, fails) ==
    IF Parent_errors(parent) # EmptyMap
    THEN /\ relret' = [RelReturned("save", "") EXCEPT !.raised = "DocumentException"]
         /\ UNCHANGED <<notRel, parent, childColl>>
    ELSE LET s == Parent_save_delta(parent, childColl, order) IN
         /\ childColl' = s.store
         /\ parent' = IF fails \/ Truthy(parent._id) THEN parent
                      ELSE [parent EXCEPT !._id = ObjectId(1)]
         /\ relret' = [RelReturned("save", "") EXCEPT
                         !.raised = IF fails THEN "OperationFailure" ELSE NoError,
                         !.result = IF fails THEN PyNone ELSE parent'._id,
                         !.writes = s.writes \o <<Write("Parent", 1, "")>>]
         /\ UNCHANGED notRel

NextCascade ==
    \/ \E key \in {"ref", "dref"}, val \in {ChildValue(1), ChildValue(2)} :
          Parent_setattr(key, val)
    \/ \E key \in {"ref", "dref"} : dereference(key)
    \/ \E key \in {"ref", "dref"}, v \in ChildInputs : Child_setattr_a(key, v)
    \/ \E order \in CascadeOrders, fails \in BOOLEAN : Parent_save(order, fails)

SpecCascade == Init /\ [][NextCascade]_vars

-----------------------------------------------------------------------------
(* Claims about cascading saves *)

\* the relation holds an instance whose own delta is not empty
Dirty(f) == Holds(f) /\ Field_save(f.__dyninst__.a, "a") # EmptyMap

\* C22 (as claimed): a save() of the Parent that sends the Parent's write has
\* sent, before it, the write of every dirty Child that ref or dref holds and
\* no write for any other relation; and whatever becomes of the Parent's
\* write, the collection keeps what the last write of a dirty Child set.
C22_CascadeBeforeWrite ==
    (relret.op = "save" /\ relret.writes # <<>>) =>
        LET w == relret.writes
            n == Len(relret.writes)
        IN  /\ w[n].coll = "Parent"
            /\ \A key \in {"ref", "dref"} :
                  Dirty(parent[key]) =>
                     \E i \in 1..(n - 1) :
                        w[i] = Write("Child", parent[key].__dyninst__._id.n, key)
            /\ \A i \in 1..(n - 1) : w[i].coll = "Child" /\ w[i].via \in {"ref", "dref"}
            /\ \A i \in 1..(n - 1) :
                  ( /\ Dirty(parent[w[i].via])
                    /\ childColl[w[i].id] # NoDocument
                    /\ \A j \in (i + 1)..(n - 1) : w[j].id # w[i].id )
                  => childColl[w[i].id].a = parent[w[i].via].__dyninst__.a._value

-----------------------------------------------------------------------------
(* Lazy relations: an Owner is assigned, loaded pair by pair or mapped, and
   its relations are resolved *)

\* raw documents of an Owner; a stored document can carry a key that bears
\* the name of a relation
OwnerPairs ==
    {<<"_id", RawVal(ObjectId(1))>>, <<"a", RawVal(PyInt(1))>>,
     <<"kids", RawList(<<>>)>>}
OwnerDocs ==
    {("a" :> RawVal(PyInt(1))),
     ("a" :> RawVal(PyInt(1))) @@ ("kids" :> RawList(<<>>)),
     ("kids" :> RawList(<<>>)) @@ ("pets" :> RawVal(PyInt(1)))}

\* filters passed as query= to a relation
Filters == {EmptyMap, ("x" :> PyInt(1))}

\* owner.a = v
Owner_setattr_a(o, v) ==
    /\ owners' = [owners EXCEPT ![o].a = __setattr__(@, v).f]
    /\ lazyret' = LazyReturned("__setattr__", o, "")
    /\ UNCHANGED <<notLazy, _query>>

\* Document.__setitem__(key, val) on an Owner the driver is building
Owner_setitem(o, key, val) ==
    LET ow == owners[o]
        h == Update(ow.hargs, (key :> val))
        ks == ow.hargskeys \cup {key}
        buffered == [ow EXCEPT !.hargs = h, !.hargskeys = ks]
    IN
    /\ key \notin ow.hargskeys
    /\ key = "_id" => ow._id = PyNone
    /\ owners' = [owners EXCEPT ![o] =
                    IF key = "_id" THEN [ow EXCEPT !._id = RawObject(val)]
                    ELSE IF Owner_keys(ow) \subseteq ks /\ Truthy(ow._id)
                         THEN Owner_map(buffered, h, TRUE)
                         ELSE buffered]
    /\ lazyret' = LazyReturned("__setitem__", o, "")
    /\ UNCHANGED <<notLazy, _query>>

\* owner._map(vals, init)
Owner__map(o, vals, init) ==
    /\ owners' = [owners EXCEPT ![o] = Owner_map(@, vals, init)]
    /\ lazyret' = LazyReturned("_map", o, "")
    /\ UNCHANGED <<notLazy, _query>>

\* Lazy.__call__(query=F) on the relation rel of an owner:
\*     q = kwargs.get('query', {}); q.update({self._key: self._base._id})
\*     self._query.update(q); return self._type.find(self._query)
Lazy_call(o, rel, F) ==
    LET q == Update(F, (owners[o][rel]._key :> owners[o]._id)) IN
    /\ _query' = Update(_query, q)
    /\ lazyret' = [LazyReturned("Lazy.__call__", o, rel) EXCEPT
                     !.filter = F, !.caller = q, !.query = _query']
    /\ UNCHANGED <<notLazy, owners>>

\* one Owner, through its life
NextLazy ==
    \/ \E v \in AInputs : Owner_setattr_a("o1", v)
    \/ \E pair \in OwnerPairs : Owner_setitem("o1", pair[1], pair[2])
    \/ \E vals \in OwnerDocs, init \in BOOLEAN : Owner__map("o1", vals, init)
    \/ \E rel \in LazyKeys, F \in Filters : Lazy_call("o1", rel, F)

SpecLazy == Init /\ [][NextLazy]_vars

\* two Owners, loaded and resolving their relations
NextQuery ==
    \/ \E o \in Owners : Owner_setitem(o, "_id", RawVal(ObjectId(IF o = "o1" THEN 1 ELSE 2)))
    \/ \E o \in Owners, rel \in LazyKeys, F \in Filters : Lazy_call(o, rel, F)

SpecQuery == Init /\ [][NextQuery]_vars

-----------------------------------------------------------------------------
(* Claims about lazy relations *)

\* C24: in every state of an Owner its Lazy relations add no entry to the
\* delta of _save, none to the report of _errors and no key to the document
\* of _json, they are not among the keys __setitem__ waits for, and they are
\* as base.__init__ made them, whatever was mapped.
C24_LazyIsReadSide ==
    \A o \in Owners :
        /\ DOMAIN Owner_save(owners[o]) \cap LazyKeys = {}
        /\ DOMAIN Owner_errors(owners[o]) \cap LazyKeys = {}
        /\ DOMAIN Owner_json(owners[o]) \cap LazyKeys = {}
        /\ Owner_keys(owners[o]) \cap LazyKeys = {}
        /\ \A k \in LazyKeys : owners[o][k] = Owner[k]

\* an Owner loaded pair by pair from a document that carries the key "kids",
\* mapped without waiting for it or for "pets", then changed (its delta and
\* its error report are not empty), one of its relations resolved last
C24_Witness ==
    /\ owners["o1"]._inited
    /\ "kids" \in owners["o1"].hargskeys
    /\ Owner_save(owners["o1"]) # EmptyMap
    /\ Owner_errors(owners["o1"]) # EmptyMap
    /\ lazyret.op = "Lazy.__call__"
    /\ _query # EmptyMap

\* C25 (as claimed): the query a resolution hands to find is the filter it
\* was given with the pair {key of the relation: _id of the owner} added,
\* and nothing else.
C25_QueryIsFresh ==
    lazyret.op = "Lazy.__call__" =>
        lazyret.query =
            Update(lazyret.filter,
                   (owners[lazyret.owner][lazyret.rel]._key :> owners[lazyret.owner]._id))

-----------------------------------------------------------------------------
(* Attribute assignment on a Thing *)

\* values assigned to an attribute: for v a valid one, one Integer.clean
\* rejects, one the validator rejects, one the validator fails on; for did a
\* stored Child, None, and a string that is no ObjectId; anything for note
ThingInputs(key) ==
    CASE key = "v" -> {PyInt(1), PyStr("x"), PyInt(2), PyInt(0)}
      [] key = "did" -> {ChildValue(1), PyNone, PyStr("x")}
      [] OTHER -> {PyInt(1), PyStr("x")}

\* thing.<key> = val
Thing_setattr(key, val) ==
    LET r == base_setattr(thing[key], val) IN
    /\ thing' = [thing EXCEPT ![key] = r.slot]
    /\ thingret' = Assigned(key, val, r.caught, thing)
    /\ UNCHANGED notAttr

NextAttr ==
    \E key \in Declared \cup {Undeclared} : \E val \in ThingInputs(key) :
        Thing_setattr(key, val)

SpecAttr == Init /\ [][NextAttr]_vars

\* C26 (as claimed): after any assignments every declared slot holds its
\* Field instance; an assignment changed the value of that field only as its
\* _clean does; an assignment to the undeclared name left the declared
\* slots as they were and made the name a plain property.
C26_AssignRoutesThroughField ==
    /\ \A k \in Declared : IsField(thing[k]) /\ thing[k].kind = Thing[k].kind
    /\ (thingret.op = "__setattr__" /\ thingret.key \in Declared) =>
          \A k \in Declared :
             (IsField(thing[k]) /\ IsField(thingret.before[k])
                /\ thing[k]._value # thingret.before[k]._value)
             => /\ k = thingret.key
                /\ thing[k]._value =
                      _clean_validated(thingret.before[k], thingret.arg, PyNone).f._value
    /\ (thingret.op = "__setattr__" /\ thingret.key = Undeclared) =>
          /\ \A k \in Declared : thing[k] = thingret.before[k]
          /\ thing[Undeclared] = thingret.arg

-----------------------------------------------------------------------------
(* Plain values in a List: a Doc is loaded, its list is extended through the
   methods List inherits from list, and it is saved *)

\* plain values put into Doc.l
RawElems == {PyStr("x"), PyInt(1)}

\* doc.l.extend([v]): list.extend, which List does not override, checks
\* neither the type nor the length (the model keeps the list within MaxLen)
extend(v) ==
    /\ Len(l) < MaxLen
    /\ l' = Append(l, v)
    /\ ret' = [Returned("extend", "ok") EXCEPT !.arg = v]
    /\ lastWrite' = NoWrite
    /\ UNCHANGED <<ext, sequence, ents, a, x, _id, _inited, hargs, hargskeys, created, modified,
                   active, clock, coll, baseline, mapCount>>

NextRaw ==
    \/ \E doc \in StoredDocs : _doc(doc)
    \/ \E v \in RawElems : extend(v)
    \/ \E i \in 1..Len(l), v \in ElemInputs : ~IsRaw(l[i]) /\ setattr_l_y(i, v)
    \/ save

SpecRaw == Init /\ [][NextRaw]_vars

\* the paths an element of Doc.l can add to a delta
ElemPaths(i) == {IndexPath("l", i), Join(IndexPath("l", i), "y")}

\* C27 (as claimed): the delta of Doc.l holds entries under index-extended
\* paths only; a mapped typed element adds exactly its own delta under its
\* index; a plain value is in the delta (whole, under its index) only when
\* it differs from what the last load or save left at that index; and right
\* after a load the delta of the list is empty.
C27_ContainerDelta ==
    LET d == List_save(l, "l") IN
    /\ DOMAIN d \subseteq UNION {ElemPaths(i) : i \in 1..Len(l)}
    /\ \A i \in 1..Len(l) :
          LET ns == IndexPath("l", i) IN
          IF IsRaw(l[i])
          THEN ns \in DOMAIN d =>
                  /\ d[ns] = l[i]
                  /\ ns \notin DOMAIN baseline \/ baseline[ns] # l[i]
          ELSE l[i]._inited =>
                  /\ ns \notin DOMAIN d
                  /\ \A p \in DOMAIN base_save(l[i], ns) :
                        p \in DOMAIN d /\ d[p] = base_save(l[i], ns)[p]
                  /\ Join(ns, "y") \in DOMAIN d => Join(ns, "y") \in DOMAIN base_save(l[i], ns)
    /\ ret.op = "_doc" => d = EmptyMap

-----------------------------------------------------------------------------
(* Operations on the Stamped *)

StampInputs == {PyNone, PyTime(0), PyStr("x")}
StampedDocs ==
    {("a" :> PyInt(1)),
     ("a" :> PyInt(1)) @@ ("ts" :> PyNone),
     ("a" :> PyInt(2)) @@ ("ts" :> PyTime(0))}

\* stamped.a = v
Stamped_setattr_a(v) ==
    /\ stamped' = [stamped EXCEPT !.a = __setattr__(@, v).f]
    /\ stampret' = Stamping("__setattr__", "a", stamped)
    /\ UNCHANGED <<utcnow, notStamp>>

\* stamped.ts = v
Stamped_setattr_ts(v) ==
    /\ stamped' = [stamped EXCEPT !.ts = __setattr__(@, v).f]
    /\ stampret' = Stamping("__setattr__", "ts", stamped)
    /\ UNCHANGED <<utcnow, notStamp>>

\* stamped._map(vals, init=True): the mapping pass of a loaded document
Stamped__map(vals) ==
    /\ stamped' = Stamped_map(stamped, vals, TRUE)
    /\ stampret' = [Stamping("_map", "", stamped) EXCEPT !.sent = vals]
    /\ UNCHANGED <<utcnow, notStamp>>

\* stamped._save(): the diff alone
Stamped__save ==
    LET d == Stamped_delta(stamped, utcnow + 1) IN
    /\ utcnow < MaxClock
    /\ utcnow' = utcnow + 1
    /\ stamped' = d.e
    /\ stampret' = [Stamping("_save", "", stamped) EXCEPT !.sent = d.delta]
    /\ UNCHANGED notStamp

\* stamped.save()
Stamped_save ==
    LET errs == Stamped_errors(stamped)
        d == Stamped_delta(stamped, utcnow + 1)
        stamps == [k \in {"__created__", "__modified__", "__active__"} |->
                     IF k = "__active__" THEN PyBool(TRUE) ELSE PyTime(utcnow + 1)]
    IN
    IF DOMAIN errs # {}
    THEN /\ stampret' = [Stamping("save", "", stamped)
                            EXCEPT !.raised = "DocumentException", !.sent = errs]
         /\ UNCHANGED <<stamped, utcnow, notStamp>>
    ELSE /\ utcnow < MaxClock
         /\ utcnow' = utcnow + 1
         /\ IF ~Truthy(stamped._id)
            THEN /\ stamped' = [d.e EXCEPT !._id = ObjectId(1)]
                 /\ stampret' = [Stamping("save", "", stamped)
                                    EXCEPT !.write = "insert",
                                           !.sent = Update(Stamped_json(d.e), stamps)]
            ELSE /\ stamped' = d.e
                 /\ stampret' = [Stamping("save", "", stamped)
                                    EXCEPT !.write = "update",
                                           !.sent = Update(d.delta,
                                                 ("__modified__" :> PyTime(utcnow + 1)))]
         /\ UNCHANGED notStamp

NextStamp ==
    \/ \E v \in AInputs : Stamped_setattr_a(v)
    \/ \E v \in StampInputs : Stamped_setattr_ts(v)
    \/ \E vals \in StampedDocs : Stamped__map(vals)
    \/ Stamped__save
    \/ Stamped_save

SpecStamp == Init /\ [][NextStamp]_vars

\* the timestamp field is still unset
Unset(e) == PyEq(e.ts._value, PyNone)

\* C28: a timestamp field that is still unset is populated with the current
\* time by the diff of a save and by nothing else: an assignment to another
\* field leaves it unset, a mapping pass gives it only what the mapped
\* document holds under its key; save() of a new entity whose timestamp is
\* unset (and whose fields hold no validation error) succeeds and the
\* inserted document holds the populated value, the current time; a save of
\* an entity whose timestamp is set leaves that value in place, and a save
\* that validation rejects changes nothing.
C28_StampedAtSaveOnly ==
    LET b == stampret.before IN
    /\ (stampret.op = "__setattr__" /\ stampret.arg = "a") => stamped.ts = b.ts
    /\ stampret.op = "_map" =>
          stamped.ts._value = IF "ts" \in DOMAIN stampret.sent
                              THEN stampret.sent["ts"] ELSE b.ts._value
    /\ (stampret.op \in {"save", "_save"} /\ stampret.raised = NoError) =>
          /\ ~Unset(stamped)
          /\ stamped.ts._value = IF Unset(b) THEN PyTime(utcnow) ELSE b.ts._value
    /\ (stampret.op = "save" /\ ~Truthy(b._id) /\ DOMAIN Stamped_errors(b) = {}) =>
          /\ stampret.raised = NoError
          /\ stampret.write = "insert"
          /\ stampret.sent["ts"] = stamped.ts._value
          /\ Unset(b) => stampret.sent["ts"] = PyTime(utcnow)
    /\ (stampret.op = "save" /\ stampret.raised # NoError) => stamped = b

\* a new entity with an unset timestamp was inserted with the time of the
\* save, and a later save left that value in place
C28_Witness ==
    /\ stampret.op = "save" /\ stampret.write = "update"
    /\ utcnow = 2
    /\ stamped.ts._value = PyTime(1)
    /\ stampret.before.ts._value = PyTime(1)

====
